---- MODULE Spec2Model ----
(***************************************************************************)
(* Terminal Snake (src/snake.py): the game loop of run() as a state        *)
(* machine.  A loop iteration handles a resize, if the terminal size has    *)
(* changed (lines 168-176), and then reads a key and ticks (lines          *)
(* 178-228).  A collision leaves the loop for the game-over section        *)
(* (lines 253-274).                                                        *)
(***************************************************************************)
EXTENDS Integers, Sequences, FiniteSets, TLC

VARIABLES
    pc,          \* position of run(): start, loop, getch, save, gameover, exited, crashed;
                 \* or of a function called on its own: call, returned
    h, w,        \* grid bounds held by run()
    body,        \* deque of Points, head first
    snake_set,   \* set of occupied Points
    food,        \* the food Point
    direction,   \* current direction vector
    score,
    paused,
    wrap_walls,
    high_score,  \* in-memory high score
    disk,        \* content of HIGHSCORE_PATH
    retval,      \* what run() returned: "-" (still running), "0", "1", "None", or "raised"
    saves,       \* number of save_highscore calls made so far
    ticks,       \* number of ticks executed
    resizes,     \* number of resizes handled
    budget,      \* the number of ticks and resizes this run is followed for
    last,        \* the step that produced this state: <<step, key, outcome>>
    args,        \* a function called on its own: <<name, arguments ...>>
    out          \* what that call returned

vars == <<pc, h, w, body, snake_set, food, direction, score, paused, wrap_walls,
          high_score, disk, retval, saves, ticks, resizes, budget, last,
          args, out>>

game == <<h, w, body, snake_set, food, direction, score, paused>>

----------------------------------------------------------------------------
(* Bounds of the model *)

\* a run executes at most MaxEvents ticks and resizes in all
MaxEvents == 4

\* a run that is played in the 4x4 terminal executes at most MaxTinyEvents
MaxTinyEvents == 7

\* random.randint(lo, hi) is drawn from the middle of lo..hi and the
\* RandSpread values above it
RandSpread == 1

\* the high-score file at start is unreadable or holds MaxStored
MaxStored == 1

\* place_food is called on its own for every grid of 3..MaxFoodDim rows and
\* 3..MaxFoodDim+1 columns
MaxFoodDim == 4

\* calc_tick is called on its own for the scores 0..MaxScore
MaxScore == 30

\* the tallest grid on which the head computation is called on its own
MaxWrapDim == 20

----------------------------------------------------------------------------
(* Program constants *)

START_LENGTH == 3

MIN_H == 12

MIN_W == 24

DENSE_MIN == 20

DENSE_DIV == 8

----------------------------------------------------------------------------
(* Geometry *)

Max(a, b) == IF a >= b THEN a ELSE b

Min(a, b) == IF a <= b THEN a ELSE b

Point(y, x) == <<y, x>>

DIRS == [UP |-> Point(-1, 0), DOWN |-> Point(1, 0),
         LEFT |-> Point(0, -1), RIGHT |-> Point(0, 1)]

DirKeys == {"UP", "DOWN", "LEFT", "RIGHT"}

add(a, b) == Point(a[1] + b[1], a[2] + b[2])

\* Python's a % n for n # 0 (the result has the sign of n)
PyMod(a, n) == IF n > 0 THEN a % n ELSE 0 - ((0 - a) % (0 - n))

\* wrap_point raises ZeroDivisionError when h = 2 or w = 2
wrap_raises(hh, ww) == hh - 2 = 0 \/ ww - 2 = 0

\* wrap_point that forgets the offset of the interior: it re-enters one cell
\* further in
wrap_point_Skips(p, hh, ww) ==
    Point(1 + PyMod(p[1], hh - 2), 1 + PyMod(p[2], ww - 2))

wrap_point(p, hh, ww) ==
    Point(1 + PyMod(p[1] - 1, hh - 2), 1 + PyMod(p[2] - 1, ww - 2))

clamp(n, lo, hi) == Max(lo, Min(hi, n))

SeqToSet(s) == {s[i] : i \in 1..Len(s)}

----------------------------------------------------------------------------
(* Persistence *)

\* the file is missing or malformed (valid = FALSE), or holds an integer; a
\* stored negative integer loads as 0, like a missing file
DiskContents ==
    {[valid |-> FALSE, high_score |-> 0], [valid |-> TRUE, high_score |-> MaxStored]}

load_highscore(d) == IF ~d.valid THEN 0 ELSE Max(0, d.high_score)

save_highscore(n) == [valid |-> TRUE, high_score |-> n]

----------------------------------------------------------------------------
(* Food placement *)

Interior(hh, ww) == {Point(y, x) : y \in 1..(hh - 2), x \in 1..(ww - 2)}

\* the values the model draws for random.randint(lo, hi)
randint(lo, hi) ==
    {v \in lo..hi : v - ((lo + hi + 1) \div 2) \in 0..RandSpread}

Samples(hh, ww) ==
    {Point(y, x) : y \in randint(1, hh - 2), x \in randint(1, ww - 2)}

\* ScanFirst that returns the (1,1) of line 118 without scanning
ScanFirst_NoScan(hh, ww, snake) == Point(1, 1)

\* the first empty cell in the row-major scan of lines 112-116, or (1,1)
ScanFirst(hh, ww, snake) ==
    LET E == Interior(hh, ww) \ snake
    IN  IF E = {} THEN Point(1, 1)
        ELSE CHOOSE p \in E : \A q \in E :
                 p[1] < q[1] \/ (p[1] = q[1] /\ p[2] <= q[2])

\* the set of Points place_food(h, w, snake) can return: (1,1) when nothing is
\* counted empty; any empty interior cell on the dense path; on the sparse
\* path any sampled cell that is free, or the first cell of the scan when
\* all 200 samples landed on the snake
place_food(hh, ww, snake) ==
    LET playable == (hh - 2) * (ww - 2)
        empty == playable - Cardinality(snake)
    IN  IF empty <= 0 THEN {Point(1, 1)}
        ELSE IF empty < Max(DENSE_MIN, playable \div DENSE_DIV)
             THEN Interior(hh, ww) \ snake
             ELSE (Samples(hh, ww) \ snake)
                  \cup (IF Samples(hh, ww) \cap snake # {}
                        THEN {ScanFirst(hh, ww, snake)} ELSE {})

----------------------------------------------------------------------------
(* calc_tick, lines 33-35 and 125-126, in the IEEE-754 double arithmetic     *)
(* of Python floats.  A double x is held exactly as <<q, r>> with            *)
(* x = q/10^4 + r/(10^4 * 2^61): q counts units of 0.0001 s and r is what    *)
(* the binary representation adds to the decimal value.  The operators are   *)
(* exact for 2^-9 <= |x| < 2^-2, which covers every score up to 38.          *)

RECURSIVE Pow2(_)
Pow2(n) == IF n = 0 THEN 1 ELSE 2 * Pow2(n - 1)

\* 2^n mod 625
RECURSIVE Pow2Mod625(_)
Pow2Mod625(n) == IF n = 0 THEN 1 ELSE (2 * Pow2Mod625(n - 1)) % 625

DblNeg(x) == <<0 - x[1], 0 - x[2]>>

DblLess(a, b) == a[1] < b[1] \/ (a[1] = b[1] /\ a[2] < b[2])

\* x >= 2^e, for x > 0: 2^e is 625 * 2^(e+9) / 32 units of 0.0001
DblAtLeastPow2(x, e) ==
    \/ 32 * x[1] > 625 * Pow2(e + 9)
    \/ (32 * x[1] = 625 * Pow2(e + 9) /\ x[2] >= 0)

\* the binary exponent e of x > 0: 2^e <= x < 2^(e+1)
DblExponent(x) ==
    CHOOSE e \in (-9)..(-3) : DblAtLeastPow2(x, e) /\ ~DblAtLeastPow2(x, e + 1)

\* the spacing 2^(e-52) of the doubles with exponent e, in units of
\* 1/(10^4 * 2^61)
DblUlp(e) == 625 * Pow2(e + 13)

\* x modulo twice that spacing: x is (q * 2^61 + r) units, taken modulo 625
\* and modulo the power of two and recombined
DblModTwoUlp(x, e) ==
    LET M == Pow2(e + 14)
        a == (x[1] * Pow2Mod625(61) + x[2]) % 625
        b == x[2] % M
        inv == CHOOSE i \in 0..624 : (M * i) % 625 = 1
    IN  b + M * ((((a - b) % 625) * inv) % 625)

\* round x > 0 to the nearest double, ties to even
DblRoundPos(x) ==
    LET e == DblExponent(x)
        G == DblUlp(e)
        R2 == DblModTwoUlp(x, e)
        rem == R2 % G
        odd == R2 >= G
    IN  IF rem = 0 THEN x
        ELSE IF 2 * rem < G \/ (2 * rem = G /\ ~odd)
             THEN <<x[1], x[2] - rem>>
             ELSE <<x[1], x[2] + (G - rem)>>

DblRound(x) ==
    IF x = <<0, 0>> THEN x
    ELSE IF DblLess(x, <<0, 0>>) THEN DblNeg(DblRoundPos(DblNeg(x)))
    ELSE DblRoundPos(x)

\* n * x for an int n and a double x
DblMulInt(n, x) == DblRound(<<n * x[1], n * x[2]>>)

DblSub(a, b) == DblRound(<<a[1] - b[1], a[2] - b[2]>>)

\* max that always returns its second argument: no floor
DblMax_NoFloor(a, b) == b

\* Python's max(a, b): b only when it is greater than a
DblMax(a, b) == IF DblLess(a, b) THEN b ELSE a

\* the doubles nearest to 0.10, 0.045 and 0.0025
TICK_START == <<1000, 128000>>

TICK_MIN == <<450, -38400>>

TICK_DECAY_PER_POINT == <<25, 1200>>

calc_tick(sc) ==
    DblMax(TICK_MIN, DblSub(TICK_START, DblMulInt(sc, TICK_DECAY_PER_POINT)))

----------------------------------------------------------------------------
(* new_game *)

new_body(hh, ww) ==
    [i \in 1..START_LENGTH |-> Point(hh \div 2, (ww \div 2) - (i - 1))]

NewGame(hh, ww) ==
    /\ body' = new_body(hh, ww)
    /\ snake_set' = SeqToSet(body')
    /\ direction' = DIRS.RIGHT
    /\ score' = 0
    /\ food' \in place_food(hh, ww, snake_set')

----------------------------------------------------------------------------
(* Environment: terminal sizes and keys *)

\* the sizes the terminal takes: the smallest that run() accepts, a shrink
\* that clamps the start head onto its neck, and three tiny squares
TermSizes ==
    {<<MIN_H, MIN_W>>, <<(MIN_H \div 2) + 2, (MIN_W \div 2) + 1>>,
     <<2, 2>>, <<3, 3>>, <<4, 4>>}

Keys == {"none", "p", "w", "q", "r"} \cup DirKeys

----------------------------------------------------------------------------
(* run() *)

Init ==
    /\ pc = "start"
    /\ h = 0 /\ w = 0
    /\ body = <<>>
    /\ snake_set = {}
    /\ food = Point(0, 0)
    /\ direction = DIRS.RIGHT
    /\ score = 0
    /\ paused = FALSE
    /\ wrap_walls \in BOOLEAN
    /\ high_score = 0
    /\ disk \in DiskContents
    /\ retval = "-"
    /\ saves = 0
    /\ ticks = 0
    /\ resizes = 0
    /\ budget = MaxEvents
    /\ last = <<"init", "-", "-">>
    /\ args = <<>>
    /\ out = <<>>

\* lines 155-160: the terminal is too small
StartTooSmall(sz) ==
    /\ pc = "start"
    /\ (sz[1] < MIN_H \/ sz[2] < MIN_W)
    /\ pc' = "exited"
    /\ retval' = "1"
    /\ last' = <<"start", "-", "too_small">>
    /\ UNCHANGED <<budget, args, out, game, wrap_walls, high_score, disk, saves, ticks, resizes>>

\* lines 155-164
Start(sz) ==
    /\ pc = "start"
    /\ ~(sz[1] < MIN_H \/ sz[2] < MIN_W)
    /\ h' = sz[1] /\ w' = sz[2]
    /\ NewGame(sz[1], sz[2])
    /\ paused' = FALSE
    /\ high_score' = load_highscore(disk)
    /\ pc' = "loop"
    /\ last' = <<"start", "-", "ok">>
    /\ UNCHANGED <<budget, args, out, wrap_walls, disk, retval, saves, ticks, resizes>>

ClampHead(b, hh, ww) ==
    [b EXCEPT ![1] = Point(clamp(b[1][1], 1, hh - 2), clamp(b[1][2], 1, ww - 2))]

\* Resize that also resets the direction, as new_game does
Resize_ResetsDirection(sz) ==
    /\ pc = "loop"
    /\ sz # <<h, w>>
    /\ ticks + resizes < budget
    /\ h' = sz[1] /\ w' = sz[2]
    /\ body' = ClampHead(body, sz[1], sz[2])
    /\ snake_set' = SeqToSet(body')
    /\ food' \in place_food(sz[1], sz[2], snake_set')
    /\ direction' = DIRS.RIGHT
    /\ resizes' = resizes + 1
    /\ pc' = "getch"
    /\ last' = <<"resize", "-", "-">>
    /\ UNCHANGED <<budget, args, out, score, paused, wrap_walls, high_score, disk, retval,
                   saves, ticks>>

\* lines 168-176: the terminal size has changed
Resize(sz) ==
    /\ pc = "loop"
    /\ sz # <<h, w>>
    /\ ticks + resizes < budget
    /\ h' = sz[1] /\ w' = sz[2]
    /\ body' = ClampHead(body, sz[1], sz[2])
    /\ snake_set' = SeqToSet(body')
    /\ food' \in place_food(sz[1], sz[2], snake_set')
    /\ resizes' = resizes + 1
    /\ pc' = "getch"
    /\ last' = <<"resize", "-",
                 IF food \in Interior(sz[1], sz[2]) /\ food \notin snake_set'
                 THEN (IF food' = food THEN "valid_kept" ELSE "valid_moved")
                 ELSE "invalid">>
    /\ UNCHANGED <<budget, args, out, direction, score, paused, wrap_walls, high_score, disk, retval,
                   saves, ticks>>

\* run() is at line 178, after a size poll that found a change ("getch") or
\* none ("loop")
AtGetch == pc \in {"loop", "getch"}

----------------------------------------------------------------------------
(* Key handling, lines 178-197 *)

Opposite(nd, d) == nd[1] = 0 - d[1] /\ nd[2] = 0 - d[2]

\* Steer without the reversal check of line 187
Steer_NoReverseCheck(k, d, p) ==
    IF k \in DirKeys /\ ~p THEN DIRS[k] ELSE d

\* lines 185-188
Steer(k, d, p) ==
    IF k \in DirKeys /\ ~p /\ ~Opposite(DIRS[k], d) THEN DIRS[k] ELSE d

\* lines 181-182
PausedAfter(k) == IF k = "p" THEN ~paused ELSE paused

\* lines 183-184
WrapAfter(k) == IF k = "w" THEN ~wrap_walls ELSE wrap_walls

DirectionAfter(k) == Steer(k, direction, PausedAfter(k))

\* lines 181-188: what the key does to paused, wrap_walls and direction
HandleKey(k) ==
    /\ k # "q"
    /\ paused' = PausedAfter(k)
    /\ wrap_walls' = WrapAfter(k)
    /\ direction' = DirectionAfter(k)

\* whether the key asked for the exact reverse of the current direction
KeyNote(k) ==
    IF k \in DirKeys /\ Opposite(DIRS[k], direction) THEN "reverse" ELSE "-"

\* lines 178-180
Quit ==
    /\ AtGetch
    /\ pc' = "exited"
    /\ retval' = "0"
    /\ last' = <<"quit", "-", "-">>
    /\ UNCHANGED <<budget, args, out, game, wrap_walls, high_score, disk, saves, ticks, resizes>>

\* PausedLoop that lets a direction key steer although the game is paused
PausedLoop_Steers(k) ==
    /\ AtGetch
    /\ k # "q"
    /\ paused' = PausedAfter(k)
    /\ wrap_walls' = WrapAfter(k)
    /\ direction' = Steer(k, direction, FALSE)
    /\ paused'
    /\ pc' = "loop"
    /\ last' = <<"paused", KeyNote(k), "-">>
    /\ UNCHANGED <<budget, args, out, h, w, body, snake_set, food, score, high_score, disk, retval,
                   saves, ticks, resizes>>

\* lines 178-197: the key leaves the game paused, and the loop continues
PausedLoop(k) ==
    /\ AtGetch
    /\ HandleKey(k)
    /\ paused'
    /\ pc' = "loop"
    /\ last' = <<"paused", KeyNote(k), "-">>
    /\ UNCHANGED <<budget, args, out, h, w, body, snake_set, food, score, high_score, disk, retval,
                   saves, ticks, resizes>>

----------------------------------------------------------------------------
(* The tick, lines 199-228, in the iteration that read key k *)

head == body[1]

tail == body[Len(body)]

\* lines 199-203
new_head(k) ==
    IF WrapAfter(k) THEN wrap_point(add(head, DirectionAfter(k)), h, w)
    ELSE add(head, DirectionAfter(k))

\* HitsWall with the border row and column taken for playable cells
HitsWall_OffByOne(p) == p[1] < 0 \/ p[1] > h - 1 \/ p[2] < 0 \/ p[2] > w - 1

\* lines 205-210
HitsWall(p) == p[1] <= 0 \/ p[1] >= h - 1 \/ p[2] <= 0 \/ p[2] >= w - 1

\* line 214
HitsSelf(p) == p \in snake_set /\ p # tail

\* the iteration reaches line 199
Ticks(k) ==
    /\ AtGetch
    /\ ticks + resizes < budget
    /\ HandleKey(k)
    /\ ~paused'
    /\ ticks' = ticks + 1

\* the tick passes lines 199-215 without break or exception
Survives(k) ==
    /\ ~(WrapAfter(k) /\ wrap_raises(h, w))
    /\ (WrapAfter(k) \/ ~HitsWall(new_head(k)))
    /\ ~HitsSelf(new_head(k))

\* line 203 with h = 2 or w = 2: ZeroDivisionError leaves run()
TickZeroDivision(k) ==
    /\ Ticks(k)
    /\ WrapAfter(k) /\ wrap_raises(h, w)
    /\ pc' = "crashed"
    /\ retval' = "raised"
    /\ last' = <<"tick", KeyNote(k), "ZeroDivisionError">>
    /\ UNCHANGED <<budget, args, out, h, w, body, snake_set, food, score, high_score, disk, saves,
                   resizes>>

\* lines 204-211
TickWall(k) ==
    /\ Ticks(k)
    /\ ~WrapAfter(k) /\ HitsWall(new_head(k))
    /\ pc' = "save"
    /\ last' = <<"tick", KeyNote(k), "wall">>
    /\ UNCHANGED <<budget, args, out, h, w, body, snake_set, food, score, high_score, disk, retval,
                   saves, resizes>>

\* lines 213-215
TickSelf(k) ==
    /\ Ticks(k)
    /\ ~(WrapAfter(k) /\ wrap_raises(h, w))
    /\ (WrapAfter(k) \/ ~HitsWall(new_head(k)))
    /\ HitsSelf(new_head(k))
    /\ pc' = "save"
    /\ last' = <<"tick", KeyNote(k), "self">>
    /\ UNCHANGED <<budget, args, out, h, w, body, snake_set, food, score, high_score, disk, retval,
                   saves, resizes>>

\* TickEat that leaves the in-memory high score as it was
TickEat_KeepsHighScore(k) ==
    /\ Ticks(k)
    /\ Survives(k)
    /\ new_head(k) = food
    /\ body' = <<new_head(k)>> \o body
    /\ snake_set' = snake_set \cup {new_head(k)}
    /\ score' = score + 1
    /\ high_score' = high_score
    /\ food' \in place_food(h, w, snake_set')
    /\ pc' = "loop"
    /\ last' = <<"tick", KeyNote(k), IF new_head(k) = tail THEN "ate_tail" ELSE "ate">>
    /\ UNCHANGED <<budget, args, out, h, w, disk, retval, saves, resizes>>

\* lines 217-225
TickEat(k) ==
    /\ Ticks(k)
    /\ Survives(k)
    /\ new_head(k) = food
    /\ body' = <<new_head(k)>> \o body
    /\ snake_set' = snake_set \cup {new_head(k)}
    /\ score' = score + 1
    /\ high_score' = IF score' > high_score THEN score' ELSE high_score
    /\ food' \in place_food(h, w, snake_set')
    /\ pc' = "loop"
    /\ last' = <<"tick", KeyNote(k), IF new_head(k) = tail THEN "ate_tail" ELSE "ate">>
    /\ UNCHANGED <<budget, args, out, h, w, disk, retval, saves, resizes>>

\* lines 217-220, 226-228
TickMove(k) ==
    /\ Ticks(k)
    /\ Survives(k)
    /\ new_head(k) # food
    /\ tail \in snake_set \cup {new_head(k)}
    /\ body' = <<new_head(k)>> \o SubSeq(body, 1, Len(body) - 1)
    /\ snake_set' = (snake_set \cup {new_head(k)}) \ {tail}
    /\ pc' = "loop"
    /\ last' = <<"tick", KeyNote(k), IF new_head(k) = tail THEN "tail" ELSE "moved">>
    /\ UNCHANGED <<budget, args, out, h, w, food, score, high_score, disk, retval, saves, resizes>>

\* line 228: snake_set.remove(removed) raises KeyError, after lines 217-227
\* have changed body and snake_set
TickKeyError(k) ==
    /\ Ticks(k)
    /\ Survives(k)
    /\ new_head(k) # food
    /\ tail \notin snake_set \cup {new_head(k)}
    /\ body' = <<new_head(k)>> \o SubSeq(body, 1, Len(body) - 1)
    /\ snake_set' = snake_set \cup {new_head(k)}
    /\ pc' = "crashed"
    /\ retval' = "raised"
    /\ last' = <<"tick", KeyNote(k), "KeyError">>
    /\ UNCHANGED <<budget, args, out, h, w, food, score, high_score, disk, saves, resizes>>

\* lines 178-228: the step is a loop iteration that read key k and did not
\* quit
ReadsKey(k) ==
    /\ AtGetch
    /\ last'[1] \in {"tick", "paused"}
    /\ HandleKey(k)

----------------------------------------------------------------------------
(* Game over, lines 253-274 *)

\* SaveHighscore writing only a high score that differs from the loaded one
SaveHighscore_IfChanged ==
    /\ pc = "save"
    /\ saves' = IF high_score # load_highscore(disk) THEN saves + 1 ELSE saves
    /\ disk' = IF high_score # load_highscore(disk)
               THEN save_highscore(high_score) ELSE disk
    /\ pc' = "gameover"
    /\ last' = <<"save", "-", "ok">>
    /\ UNCHANGED <<budget, args, out, game, wrap_walls, high_score, retval, ticks, resizes>>

\* line 254, lines 78-82
SaveHighscore ==
    /\ pc = "save"
    /\ saves' = saves + 1
    /\ disk' = save_highscore(high_score)
    /\ pc' = "gameover"
    /\ last' = <<"save", "-", "ok">>
    /\ UNCHANGED <<budget, args, out, game, wrap_walls, high_score, retval, ticks, resizes>>

\* line 254: the write raises OSError, which leaves run()
SaveFails ==
    /\ pc = "save"
    /\ saves' = saves + 1
    /\ pc' = "crashed"
    /\ retval' = "raised"
    /\ last' = <<"save", "-", "OSError">>
    /\ UNCHANGED <<budget, args, out, game, wrap_walls, high_score, disk, ticks, resizes>>

\* lines 265-267
GameOverQuit ==
    /\ pc = "gameover"
    /\ pc' = "exited"
    /\ retval' = "0"
    /\ last' = <<"quit", "-", "-">>
    /\ UNCHANGED <<budget, args, out, game, wrap_walls, high_score, disk, saves, ticks, resizes>>

\* lines 265-269: any key but q and r
GameOverKey(k) ==
    /\ pc = "gameover"
    /\ k \notin {"q", "r", "none"}
    /\ wrap_walls' = IF k = "w" THEN ~wrap_walls ELSE wrap_walls
    /\ last' = <<"gameover", IF k = "w" THEN "w" ELSE "-", "-">>
    /\ UNCHANGED <<budget, args, out, pc, game, high_score, disk, retval, saves, ticks, resizes>>

\* lines 270-274: the break leaves the game-over loop, which is the last
\* statement of run(): run() returns None
Restart ==
    /\ pc = "gameover"
    /\ NewGame(h, w)
    /\ paused' = FALSE
    /\ pc' = "exited"
    /\ retval' = "None"
    /\ last' = <<"restart", "-", "-">>
    /\ UNCHANGED <<budget, args, out, h, w, wrap_walls, high_score, disk, saves, ticks, resizes>>

----------------------------------------------------------------------------

Next ==
    \/ \E sz \in TermSizes : StartTooSmall(sz)
    \/ \E sz \in TermSizes : Start(sz)
    \/ \E sz \in TermSizes : Resize(sz)
    \/ Quit
    \/ \E k \in Keys : PausedLoop(k)
    \/ \E k \in Keys : TickZeroDivision(k)
    \/ \E k \in Keys : TickWall(k)
    \/ \E k \in Keys : TickSelf(k)
    \/ \E k \in Keys : TickEat(k)
    \/ \E k \in Keys : TickMove(k)
    \/ \E k \in Keys : TickKeyError(k)
    \/ SaveHighscore
    \/ SaveFails
    \/ GameOverQuit
    \/ \E k \in Keys : GameOverKey(k)
    \/ Restart

Spec == Init /\ [][Next]_vars

----------------------------------------------------------------------------
(* Longer runs on the 4x4 terminal: the terminal is shrunk to 4x4 in the    *)
(* first loop iteration and the game is never paused.                       *)

TinySize == <<4, 4>>

InitTiny ==
    /\ pc = "start"
    /\ h = 0 /\ w = 0
    /\ body = <<>>
    /\ snake_set = {}
    /\ food = Point(0, 0)
    /\ direction = DIRS.RIGHT
    /\ score = 0
    /\ paused = FALSE
    /\ wrap_walls \in BOOLEAN
    /\ high_score = 0
    /\ disk \in DiskContents
    /\ retval = "-"
    /\ saves = 0
    /\ ticks = 0
    /\ resizes = 0
    /\ budget = MaxTinyEvents
    /\ last = <<"init", "-", "-">>
    /\ args = <<>>
    /\ out = <<>>

NextTiny ==
    \/ Start(<<MIN_H, MIN_W>>)
    \/ (ticks = 0 /\ Resize(TinySize))
    \/ (resizes = 1 /\ \E k \in Keys \ {"p"} : TickWall(k))
    \/ (resizes = 1 /\ \E k \in Keys \ {"p"} : TickSelf(k))
    \/ (resizes = 1 /\ \E k \in Keys \ {"p"} : TickEat(k))
    \/ (resizes = 1 /\ \E k \in Keys \ {"p"} : TickMove(k))
    \/ SaveHighscore

SpecTiny == InitTiny /\ [][NextTiny]_vars

----------------------------------------------------------------------------
(* place_food, the head computation of the tick and calc_tick, each called  *)
(* on its own with arguments drawn from bounded sets.                        *)

\* every occupied set within the interior of a small grid, and on the
\* smallest grid run() accepts every set of sampled cells and scan starts
FoodSnakes(hh, ww) ==
    IF hh = MIN_H /\ ww = MIN_W
    THEN SUBSET (Samples(hh, ww) \cup {Point(1, 1), Point(1, 2)})
    ELSE SUBSET Interior(hh, ww)

FoodSizes ==
    {<<hh, ww>> : hh \in 3..MaxFoodDim, ww \in 3..(MaxFoodDim + 1)}
        \cup {<<MIN_H, MIN_W>>}

HeadSizes == {3, 4, MIN_H, MaxWrapDim} \X {3, 4, MIN_W}

\* lines 199-203: the new head of a tick
new_head_of(hd, d, wr, hh, ww) ==
    IF wr THEN wrap_point(add(hd, d), hh, ww) ELSE add(hd, d)

\* lines 205-210
wall_at(p, hh, ww) ==
    p[1] <= 0 \/ p[1] >= hh - 1 \/ p[2] <= 0 \/ p[2] >= ww - 1

InitFn ==
    /\ pc = "call"
    /\ \/ \E sz \in FoodSizes : \E sn \in FoodSnakes(sz[1], sz[2]) :
             args = <<"place_food", sz[1], sz[2], sn>>
       \/ \E sz \in HeadSizes : \E hd \in Interior(sz[1], sz[2]) :
             \E k \in DirKeys : \E wr \in BOOLEAN :
                args = <<"new_head", hd, DIRS[k], wr, sz[1], sz[2]>>
       \/ \E sc \in 0..MaxScore : args = <<"calc_tick", sc>>
    /\ out = <<>>
    /\ h = 0 /\ w = 0
    /\ body = <<>>
    /\ snake_set = {}
    /\ food = Point(0, 0)
    /\ direction = DIRS.RIGHT
    /\ score = 0
    /\ paused = FALSE
    /\ wrap_walls = FALSE
    /\ high_score = 0
    /\ disk = [valid |-> FALSE, high_score |-> 0]
    /\ retval = "-"
    /\ saves = 0
    /\ ticks = 0
    /\ resizes = 0
    /\ budget = 0
    /\ last = <<"init", "-", "-">>

\* lines 85-118
CallPlaceFood ==
    /\ pc = "call"
    /\ args[1] = "place_food"
    /\ out' \in place_food(args[2], args[3], args[4])
    /\ pc' = "returned"
    /\ UNCHANGED <<args, game, wrap_walls, high_score, disk, retval, saves, ticks,
                   resizes, budget, last>>

\* lines 199-211: the new head, and whether the tick breaks on the wall
CallNewHead ==
    /\ pc = "call"
    /\ args[1] = "new_head"
    /\ LET nh == new_head_of(args[2], args[3], args[4], args[5], args[6])
       IN  out' = [at |-> nh,
                   wall |-> ~args[4] /\ wall_at(nh, args[5], args[6])]
    /\ pc' = "returned"
    /\ UNCHANGED <<args, game, wrap_walls, high_score, disk, retval, saves, ticks,
                   resizes, budget, last>>

\* lines 125-126
CallCalcTick ==
    /\ pc = "call"
    /\ args[1] = "calc_tick"
    /\ out' = calc_tick(args[2])
    /\ pc' = "returned"
    /\ UNCHANGED <<args, game, wrap_walls, high_score, disk, retval, saves, ticks,
                   resizes, budget, last>>

NextFn ==
    \/ CallPlaceFood
    \/ CallNewHead
    \/ CallCalcTick

SpecFn == InitFn /\ [][NextFn]_vars

----------------------------------------------------------------------------
(* Properties *)

\* a game is in progress: run() is in its main loop or its game-over section
InGame == pc \in {"loop", "getch", "save", "gameover"}

\* the step is a loop iteration that reached the tick
TickStep == pc \in {"loop", "getch"} /\ ticks' = ticks + 1

\* the new head of a tick step (direction and wrap flag as the key left them)
TickHead ==
    IF wrap_walls' THEN wrap_point(add(body[1], direction'), h, w)
    ELSE add(body[1], direction')

\* the tick step computed a new head (it did not raise in wrap_point)
HasTickHead == TickStep /\ last'[3] # "ZeroDivisionError"

\* C1: from GameOver, a restart input leads back to Running with a fresh game
\* (score 0, body of START_LENGTH, direction right, new food off the body),
\* the same bounds and wrap flag, and run() has not returned.
C1_RestartResumesPlay ==
    [][(pc = "gameover" /\ last'[1] = "restart") =>
          /\ pc' = "loop"
          /\ retval' = "-"
          /\ score' = 0
          /\ Len(body') = START_LENGTH
          /\ direction' = <<0, 1>>
          /\ h' = h /\ w' = w
          /\ wrap_walls' = wrap_walls]_vars

\* C2: while a game is in progress snake_set is exactly the set of Points of
\* body, body holds no Point twice, and removing the popped tail from
\* snake_set never raises.
C2_IndexInSync ==
    /\ InGame =>
          /\ snake_set = {body[i] : i \in 1..Len(body)}
          /\ Cardinality(snake_set) = Len(body)
    /\ last[3] # "KeyError"

\* C3: while a game is in progress the food is not on the snake body.
C3_FoodOffBody ==
    InGame => \A i \in 1..Len(body) : body[i] # food

\* C4: every tick changes the body length by 1 if the new head equals the
\* food and by 0 otherwise, ticks that end in game over included.
C4_LengthGrowsByAte ==
    [][HasTickHead =>
          Len(body') = Len(body) + (IF TickHead = food THEN 1 ELSE 0)]_vars

\* C5: the score is 0 after new_game; a tick whose new head equals the food
\* raises it by exactly 1 and regenerates the food away from the new head;
\* every other tick, key input, pause, wrap toggle or resize leaves it.
C5_ScoreOnlyByEating ==
    /\ [](last[1] = "start" /\ pc = "loop" => score = 0)
    /\ [][(pc \in {"loop", "getch"}) =>
             (IF HasTickHead /\ TickHead = food
              THEN score' = score + 1 /\ food' # TickHead
              ELSE score' = score)]_vars

\* C6: a tick with wrap mode off whose new head lies on or outside the
\* border goes to game over and leaves body, snake_set, score and food as
\* they were.
C6_WallHitLeavesGame ==
    [][(TickStep /\ ~wrap_walls'
          /\ LET nh == <<body[1][1] + direction'[1], body[1][2] + direction'[2]>>
             IN  nh[1] <= 0 \/ nh[1] >= h - 1 \/ nh[2] <= 0 \/ nh[2] >= w - 1)
       => (/\ pc' = "save"
           /\ body' = body
           /\ snake_set' = snake_set
           /\ score' = score
           /\ food' = food)]_vars

\* a tick with wrap mode off has just hit the wall
C6_Witness ==
    pc = "save" /\ last[1] = "tick" /\ last[3] = "wall" /\ ~wrap_walls

\* C7: a tick whose new head equals the pre-tick tail and is nowhere else in
\* the body does not go to game over: the head moves onto the tail cell and
\* the body length is unchanged.
C7_TailFollowIsLegal ==
    [][(HasTickHead
          /\ TickHead = body[Len(body)]
          /\ \A i \in 1..(Len(body) - 1) : body[i] # TickHead)
       => (/\ pc' = "loop"
           /\ body'[1] = TickHead
           /\ Len(body') = Len(body))]_vars

\* C8: in the main loop a direction key that is the exact opposite of the
\* current direction leaves direction unchanged, and any other direction key
\* read while not paused sets direction to the key's vector.
C8_ReverseRejected ==
    [][\A k \in DirKeys :
          ReadsKey(k) =>
             IF DIRS[k][1] = 0 - direction[1] /\ DIRS[k][2] = 0 - direction[2]
             THEN direction' = direction
             ELSE (~paused => direction' = DIRS[k])]_vars

\* a tick has run after a reverse key was read while the snake was heading up,
\* which it does only after another key has steered it
C8_Witness ==
    /\ last[1] = "tick" /\ last[2] = "reverse"
    /\ direction = <<-1, 0>>
    /\ pc = "loop"

\* C9 as claimed: the high score is written only on a game-over transition
\* during which the in-memory high score differs from the loaded value.
C9_WriteOnlyIfChanged ==
    [][(saves' # saves \/ disk' # disk) =>
          (pc = "save" /\ high_score # load_highscore(disk))]_vars

\* C9 as amended: save_highscore is called exactly once on every game-over
\* transition, whether or not the high score changed, with the in-memory
\* high score; no other step writes.
C9_WriteOncePerGameOver ==
    /\ [](pc \in {"start", "loop", "getch", "save"} => saves = 0)
    /\ [](pc = "gameover" => saves = 1)
    /\ [][(pc = "save" =>
              /\ saves' = saves + 1
              /\ (disk' = [valid |-> TRUE, high_score |-> high_score]
                    \/ (pc' = "crashed" /\ disk' = disk)))
          /\ (pc # "save" => (saves' = saves /\ disk' = disk))]_vars

\* the game is over with the high score never raised, and it was written
C9_Witness ==
    /\ pc = "gameover" /\ saves = 1 /\ score = 0
    /\ high_score = 1
    /\ disk = [valid |-> TRUE, high_score |-> 1]

\* C10 as claimed: a resize after which the old food is still inside the new
\* interior and off the body leaves the food unchanged.
C10_ResizeKeepsValidFood ==
    [][(pc = "loop" /\ <<h', w'>> # <<h, w>>
          /\ food[1] \in 1..(h' - 2) /\ food[2] \in 1..(w' - 2)
          /\ \A i \in 1..Len(body') : body'[i] # food)
       => food' = food]_vars

\* C10 as amended: the food changes only when a tick eats it, on a resize
\* (which always places it anew) or when a game is started or restarted; a
\* resize leaves score and direction unchanged.
C10_FoodChangesOnResizeOrEating ==
    [][/\ (food' # food =>
             \/ pc = "start"
             \/ (pc = "loop" /\ <<h', w'>> # <<h, w>>)
             \/ (TickStep /\ score' = score + 1)
             \/ (pc = "gameover" /\ retval' = "None"))
       /\ ((pc = "loop" /\ <<h', w'>> # <<h, w>>) =>
             (score' = score /\ direction' = direction))]_vars

\* a resize has moved food that was still valid, in a game with a point
\* scored and the snake steered away from its start direction
C10_Witness ==
    /\ last[1] = "resize" /\ last[3] = "valid_moved"
    /\ score = 1
    /\ direction # <<0, 1>>

\* C11: in every state of a game in progress every Point of the body lies
\* within the grid bounds, 0 <= row < h and 0 <= col < w, also after a
\* resize that shrinks the terminal.
C11_BodyInBounds ==
    InGame => \A i \in 1..Len(body) :
                 body[i][1] \in 0..(h - 1) /\ body[i][2] \in 0..(w - 1)

\* C12 as claimed: while the game is paused and stays paused, a step of the
\* main loop leaves body, food and score unchanged.
C12_PauseFreezesLoop ==
    [][(pc \in {"loop", "getch"} /\ paused /\ paused'
          /\ pc' \in {"loop", "getch"})
       => (body' = body /\ food' = food /\ score' = score)]_vars

\* C12 as amended: the key-handling part of an iteration that leaves the game
\* paused applies no tick and changes nothing but the pause and wrap flags;
\* from a paused state a key step quits with status 0, stays paused, or
\* resumes with a tick; quit and wrap toggle stay available while paused; a
\* resize leaves the pause flag alone but clamps the head and places food.
C12_PauseFreezesTicks ==
    /\ [][/\ (pc \in {"loop", "getch"} /\ paused' /\ pc' = "loop") =>
               /\ last'[1] = "paused"
               /\ body' = body /\ snake_set' = snake_set
               /\ food' = food /\ score' = score
               /\ direction' = direction
               /\ ticks' = ticks
          /\ (pc \in {"loop", "getch"} /\ paused /\ last'[1] # "resize") =>
               \/ (pc' = "exited" /\ retval' = "0")
               \/ paused'
               \/ (~paused' /\ ticks' = ticks + 1)
          /\ (last'[1] = "resize" => paused' = paused)]_vars
    /\ []((pc \in {"loop", "getch"} /\ paused) =>
            /\ ENABLED Quit
            /\ ENABLED (PausedLoop("w") /\ wrap_walls' # wrap_walls)
            /\ ENABLED (PausedLoop("UP") /\ direction' = direction))

\* the game is paused in mid-game, after a point was scored
C12_Witness ==
    /\ pc = "loop" /\ paused /\ last[1] = "paused"
    /\ score = 1 /\ ticks >= 1

\* C13: for any grid bounds and any occupied set within the interior that
\* leaves at least one interior cell free, place_food returns an interior
\* Point that is not in the occupied set, on each of its paths.
C13_PlaceFoodContract ==
    (/\ pc = "returned"
     /\ args[1] = "place_food"
     /\ args[4] \subseteq Interior(args[2], args[3])
     /\ Cardinality(args[4]) \in 0..((args[2] - 2) * (args[3] - 2) - 1))
    => (/\ out[1] \in 1..(args[2] - 2)
        /\ out[2] \in 1..(args[3] - 2)
        /\ out \notin args[4])

\* place_food has returned from the scan after the samples: the board is
\* sparse, every sampled cell and the first cell of the scan are occupied
C13_Witness ==
    /\ pc = "returned"
    /\ args[1] = "place_food"
    /\ args[2] = MIN_H /\ args[3] = MIN_W
    /\ Samples(MIN_H, MIN_W) \subseteq args[4]
    /\ Point(1, 1) \in args[4]
    /\ out = Point(1, 2)

\* C14: with wrap mode on, for every interior head and every direction the
\* new head is an interior Point: the neighbour cell when that is interior,
\* and otherwise the cell on the opposite interior edge of the same row or
\* column; the tick does not break on the wall.
C14_WrapStaysInside ==
    (pc = "returned" /\ args[1] = "new_head" /\ args[4])
    => LET hh == args[5]
           ww == args[6]
           t == <<args[2][1] + args[3][1], args[2][2] + args[3][2]>>
       IN  /\ out.at[1] \in 1..(hh - 2)
           /\ out.at[2] \in 1..(ww - 2)
           /\ (t[1] \in 1..(hh - 2) /\ t[2] \in 1..(ww - 2) => out.at = t)
           /\ (t[1] = 0 => out.at = <<hh - 2, t[2]>>)
           /\ (t[1] = hh - 1 => out.at = <<1, t[2]>>)
           /\ (t[2] = 0 => out.at = <<t[1], ww - 2>>)
           /\ (t[2] = ww - 1 => out.at = <<t[1], 1>>)
           /\ ~out.wall

\* the head (1,5) has moved up on the tallest grid in wrap mode and is on
\* the bottom interior row
C14_Witness ==
    /\ pc = "returned"
    /\ args = <<"new_head", <<1, 5>>, <<-1, 0>>, TRUE, MaxWrapDim, MIN_W>>
    /\ out.at = <<MaxWrapDim - 2, 5>>
    /\ ~out.wall

\* C15: while the game is running the body never occupies every interior
\* cell, and whenever food has just been placed place_food was called with
\* at least one cell counted empty, so it did not return its (1,1) sentinel.
C15_BoardNeverFull ==
    /\ (pc \in {"loop", "getch"}) =>
          ~(Interior(h, w) \subseteq {body[i] : i \in 1..Len(body)})
    /\ (pc \in {"loop", "getch"}
          /\ (last[1] \in {"start", "resize"} \/ last[3] \in {"ate", "ate_tail"})) =>
          (h - 2) * (w - 2) - Cardinality(snake_set) > 0

\* C16 as claimed: calc_tick(score) is never below TICK_MIN, is
\* non-increasing in score, and equals TICK_MIN for every score from 22
\* upward.
C16_TickFloorFrom22 ==
    (pc = "returned" /\ args[1] = "calc_tick")
    => (/\ ~DblLess(out, TICK_MIN)
        /\ ~DblLess(out, calc_tick(args[2] + 1))
        /\ (args[2] >= 22 => out = TICK_MIN))

\* C16 as amended: calc_tick(score) is never below TICK_MIN and is
\* non-increasing in score; it is above TICK_MIN for every score up to 22,
\* at 22 by exactly one unit in the last place (0.1 - 22 * 0.0025 rounds to
\* 0.045000000000000005 in double arithmetic), and equals TICK_MIN for every
\* score from 23 upward.
C16_TickFloorFrom23 ==
    (pc = "returned" /\ args[1] = "calc_tick")
    => (/\ ~DblLess(out, TICK_MIN)
        /\ ~DblLess(out, calc_tick(args[2] + 1))
        /\ (args[2] >= 23 => out = TICK_MIN)
        /\ (args[2] <= 22 => DblLess(TICK_MIN, out))
        /\ (args[2] = 22 => out = <<TICK_MIN[1], TICK_MIN[2] + DblUlp(-5)>>))

\* calc_tick(22) has returned the double just above TICK_MIN
C16_Witness ==
    /\ pc = "returned"
    /\ args = <<"calc_tick", 22>>
    /\ out = <<450, 121600>>
    /\ out # TICK_MIN

\* C17: whenever a game is in progress the grid bounds satisfy h >= 12 and
\* w >= 24, also after resizes; a terminal smaller than that at startup makes
\* run() return 1 without starting a game.
C17_BoundsAtLeastMinimum ==
    /\ InGame => (h >= MIN_H /\ w >= MIN_W)
    /\ (last[1] = "start" /\ last[3] = "too_small") =>
          (pc = "exited" /\ retval = "1" /\ body = <<>>)

\* C18: once the high score is loaded, the in-memory high score is at least
\* the score and at least the loaded value, and no step decreases it.
C18_HighScoreMonotone ==
    /\ [](InGame => high_score >= score)
    /\ [](pc \in {"loop", "getch", "save"} => high_score >= load_highscore(disk))
    /\ [][pc # "start" => high_score' >= high_score]_vars

\* a point was just scored in a game that loaded no high score, and the
\* in-memory high score has followed the score
C18_Witness ==
    /\ pc = "loop" /\ last[3] = "ate"
    /\ ~disk.valid
    /\ score = 1 /\ high_score = 1

\* C19: in every running state the new head computed by a tick is never
\* equal to the second body segment, whatever keys, pause and wrap toggles
\* and resizes came before.
C19_NeverIntoNeck ==
    [][(HasTickHead /\ Len(body) >= 2) => TickHead # body[2]]_vars

\* lines 199-228 repeated with key -1 and no resize, wrap mode off, from body
\* b, cell set ss and food f: TRUE iff a wall or self collision (lines
\* 205-215) ends the game at one of the next n ticks, whatever cell
\* place_food picks when the snake eats; a KeyError at line 228 ends run()
\* without a game over
RECURSIVE CoastEnds(_, _, _, _)
CoastEnds(b, ss, f, n) ==
    LET nh == add(b[1], direction)
        tl == b[Len(b)]
    IN  IF n <= 0 THEN FALSE
        ELSE IF HitsWall(nh) \/ (nh \in ss /\ nh # tl) THEN TRUE
        ELSE IF nh = f
             THEN \A f2 \in place_food(h, w, ss \cup {nh}) :
                     CoastEnds(<<nh>> \o b, ss \cup {nh}, f2, n - 1)
        ELSE IF tl \notin ss \cup {nh} THEN FALSE
        ELSE CoastEnds(<<nh>> \o SubSeq(b, 1, Len(b) - 1),
                       (ss \cup {nh}) \ {tl}, f, n - 1)

\* C20: from every running, unpaused state with wrap mode off, ticks without
\* key input and without resize reach game over after at most
\* max(h - 2, w - 2) ticks.
C20_CoastingEndsGame ==
    (AtGetch /\ ~paused /\ ~wrap_walls) =>
        CoastEnds(body, snake_set, food, Max(h - 2, w - 2))

====
